---- MODULE Spec2Model ----
(***************************************************************************)
(* State-machine model of the MCP Chrome proxy (src/src/server.ts):        *)
(* class ChromeProxyServer, its HTTP request listener, the ListTools and   *)
(* CallTool handlers, the stream-close grace timer and the shutdown path.  *)
(*                                                                         *)
(* Scheduling model.  Node runs one callback at a time.  An `await` of a   *)
(* promise of the SDK or of I/O (Client.connect, listTools, callTool,      *)
(* Server.connect, transport.handleRequest, close) is a suspension point:  *)
(* any other callback may run before the continuation.  The return of one  *)
(* of the class's own async methods to its awaiting caller is not one: the *)
(* continuation runs in the same microtask drain, before any I/O, timer or *)
(* signal callback, so it belongs to the same step.                        *)
(***************************************************************************)
EXTENDS Integers, Sequences, FiniteSets, TLC

\* ---------------------------------------------------------------- bounds
MaxReq == 2          \* inbound requests (HTTP exchanges or stdio requests) per run
MaxStreams == 1      \* GET exchanges on /mcp (event streams) per run
MaxSignals == 1      \* termination signals delivered per run
MaxShutdownSignals == 2   \* termination signals per run where only shutdown is explored

\* ------------------------------------------------------------- constants
sharedSessionId == "http-shared"
Modes == {"http", "stdio"}
ReqIds == 1..MaxReq
RpcIds == {1, 2}                           \* JSON-RPC ids the clients choose
ChildErrors == {<<"error", "child_error">>}            \* what the child may reject with
ConnectError == <<"error", "connect_failed">>
NotInitializedError == <<"error", "Chrome client not initialized">>
TransportError == <<"error", "transport_error">>

\* req.url and req.method as the listener sees them: a url is its characters
HealthUrl == <<"/", "h", "e", "a", "l", "t", "h">>
McpUrl == <<"/", "m", "c", "p">>
RootUrl == <<"/">>
Urls == {HealthUrl, HealthUrl \o <<"z">>, McpUrl, McpUrl \o <<"x">>, RootUrl}
Methods == {"GET", "POST", "OPTIONS", "PUT"}

\* process.argv after the script path, and process.env.MCP_TRANSPORT ("-": unset)
Argvs == {<<>>, <<"--stdio">>, <<"--port", "--stdio">>, <<"--stdio=1">>}
Envs == {"-", "stdio", "http", "STDIO"}
Launches == [argv : Argvs, env : Envs]
\* the two ways of starting the requests and shutdown are explored under
MainLaunches == {[argv |-> <<>>, env |-> "-"], [argv |-> <<"--stdio">>, env |-> "-"]}

NoRpc == [id |-> 0, method |-> "-", name |-> "-", args |-> "-"]
\* The JSON-RPC requests the clients send: a ListTools and a CallTool request of
\* different ids; two clients that send the same one collide on its id.
Rpcs == {[id |-> 1, method |-> "tools/list", name |-> "-", args |-> "-"],
         [id |-> 2, method |-> "tools/call", name |-> "navigate_page", args |-> "argsA"]}
\* The child's answer to a call it serves: it tells the calls apart.
ChildResult(method, name, args) == <<"result", method, name, args>>

VARIABLES
  launch,          \* how the process was started: process.argv and MCP_TRANSPORT
  mode,            \* "http" | "stdio": main()'s useStdio
  mainPc,          \* position of main()/startHTTP()/startStdio()
  exited,          \* -1 while running, else the exit status
  chromeClient,    \* this.chromeClient: 0 (null) or the index of a Client in clients
  clients,         \* every Client ever constructed: its connection state
  activeSessions,  \* this.activeSessions: set of <<key, pair>>, one pair per key
  pairs,           \* every server/transport pair ever constructed
  stdioServer,     \* the server of stdio mode
  reqs,            \* inbound requests, in arrival order
  nextReq,         \* number of requests that have arrived
  calls,           \* child calls (listTools/callTool), by caller: 0 is startHTTP
  timers,          \* setTimeout callbacks of cleanupSession, by <<request, event>>
  timerQueue,      \* the scheduled callbacks not yet run, in the order they will run
  cleanups         \* one cleanup() coroutine per termination signal received

vars == <<launch, mode, mainPc, exited, chromeClient, clients, activeSessions, pairs,
          stdioServer, reqs, nextReq, calls, timers, timerQueue, cleanups>>

childVars == <<chromeClient, clients>>
timerVars == <<timers, timerQueue>>
sessVars == <<activeSessions, pairs>>

\* ----------------------------------------------------------------- records
NoCall == [state |-> "none", client |-> 0, method |-> "-", name |-> "-", args |-> "-",
           forId |-> 0, result |-> <<>>, sent |-> 0]
\* the response body of lines 306-310 and the error the catch of line 298 holds
NoBody == [error |-> "-", message |-> "-", requestId |-> 0]
NoCaught == [error |-> <<>>, headersSent |-> FALSE]
IdleReq == [kind |-> "none", url |-> <<>>, method |-> "-", rpc |-> NoRpc, pc |-> "idle", sess |-> 0,
            await |-> 0, listeners |-> FALSE, status |-> 0, stream |-> FALSE,
            ended |-> FALSE,
            gone |-> FALSE, msgs |-> {}, ret |-> <<>>, thrown |-> <<>>,
            chrome_connected |-> FALSE, heads |-> 0, body |-> NoBody, caught |-> NoCaught]
NoPair == [transport |-> "none", server |-> "none", route |-> [i \in RpcIds |-> 0]]
NoTimer == [pc |-> "none", sess |-> 0, atEvent |-> 0, sclosed |-> FALSE]
\* a cleanup() coroutine: its position, the session of the current loop
\* iteration, and what it has done so far: errs, the errors logged at line 160;
\* tried / stried, the sessions whose transport.close() / server.close() it has
\* called; child, whether it has called chromeClient.close(); atSignal and
\* inFlight, the registry and the forwarded calls when the signal arrived
NoCleanup == [pc |-> "start", sess |-> 0, visited |-> FALSE, errs |-> 0, tried |-> {},
              stried |-> {}, child |-> "none", atSignal |-> {}, inFlight |-> {}]
Msg(id, ok, val, c) == [id |-> id, ok |-> ok, val |-> val, call |-> c]
Events == {"finish", "close"}

Running == exited = -1

\* =================================================== RPC child connection
\* initChromeConnection, line 53: if (this.chromeClient) return;
AlreadyConnectedNever(c) == FALSE
AlreadyConnected(c) == c # 0

\* lines 61-77: this.chromeClient = new Client(...); new StdioClientTransport(...);
\* await this.chromeClient.connect(transport)  -- the field is assigned before the await
SpawnChild ==
  /\ clients' = Append(clients, "connecting")
  /\ chromeClient' = Len(clients) + 1

\* what the handlers send to the child, lines 102 and 122-125
ForwardedArgsDropped(rpc) == [method |-> rpc.method, name |-> rpc.name, args |-> "-"]
ForwardedCall(rpc) == [method |-> rpc.method, name |-> rpc.name, args |-> rpc.args]

ChildRequest(c, rpc) ==
  LET f == ForwardedCall(rpc) IN
  [state |-> "pending", client |-> c, method |-> f.method, name |-> f.name,
   args |-> f.args, forId |-> rpc.id, result |-> <<>>, sent |-> 0]

\* `await this.chromeClient.listTools()` / `callTool(...)` is evaluated by caller
\* r: one request goes to the child; sent counts those of caller r.
SendCallTwice(cs, r, c, rpc) ==
  [cs EXCEPT ![r] = [ChildRequest(c, rpc) EXCEPT !.sent = cs[r].sent + 2]]
SendCall(cs, r, c, rpc) ==
  [cs EXCEPT ![r] = [ChildRequest(c, rpc) EXCEPT !.sent = cs[r].sent + 1]]

\* The handler body up to its first suspension (lines 93-102, 113-125):
\* await this.initChromeConnection(); if (!this.chromeClient) throw ...;
\* await this.chromeClient.listTools() / callTool({name, arguments})
HandlerBegin(r, rpc) ==
  IF AlreadyConnected(chromeClient)
  THEN /\ calls' = SendCall(calls, r, chromeClient, rpc)
       /\ UNCHANGED childVars
  ELSE /\ SpawnChild
       /\ UNCHANGED calls
HandlerBeginPc == IF AlreadyConnected(chromeClient) THEN "call" ELSE "init"
HandlerBeginAwait == IF AlreadyConnected(chromeClient) THEN 0 ELSE Len(clients) + 1

\* main, line 364: const useStdio = process.argv.includes("--stdio") ||
\* process.env.MCP_TRANSPORT === "stdio"
Includes(argv, x) == \E i \in 1..Len(argv) : argv[i] = x
useStdioArgOnly(l) == Includes(l.argv, "--stdio")
useStdio(l) == Includes(l.argv, "--stdio") \/ l.env = "stdio"

\* =================================================================== Init
\* the process started as one of the launches L, main() about to branch on useStdio
InitOf(L) ==
  /\ launch \in L
  /\ mode = IF useStdio(launch) THEN "stdio" ELSE "http"
  /\ mainPc = "start"
  /\ exited = -1
  /\ chromeClient = 0
  /\ clients = <<>>
  /\ activeSessions = {}
  /\ pairs = [p \in ReqIds |-> NoPair]
  /\ stdioServer = "none"
  /\ reqs = [r \in ReqIds |-> IdleReq]
  /\ nextReq = 0
  /\ calls = [c \in 0..MaxReq |-> NoCall]
  /\ timers = [t \in ReqIds \X Events |-> NoTimer]
  /\ timerQueue = <<>>
  /\ cleanups = <<>>
Init == InitOf(MainLaunches)

\* ============================================ responses of the RPC endpoint
\* StreamableHTTPServerTransport.send as reached from the forwarded request of
\* line 295: a response goes to the exchange registered for its JSON-RPC id, if
\* that exchange's stream is still open, and ends it; otherwise it is dropped.
StreamOpen(q) == q.stream /\ ~q.ended /\ ~q.gone

Route(pr, rq, p, id) == IF pr[p].transport = "open" THEN pr[p].route[id] ELSE 0

SendReqs(pr, rq, p, m) ==
  LET t == Route(pr, rq, p, m.id) IN
  IF t # 0 /\ StreamOpen(rq[t])
  THEN [rq EXCEPT ![t].msgs = @ \cup {m}, ![t].ended = TRUE]
  ELSE rq
SendPairs(pr, rq, p, m) ==
  IF Route(pr, rq, p, m.id) # 0
  THEN [pr EXCEPT ![p].route[m.id] = 0]
  ELSE pr

\* catch (error) { console.error(...); throw error; }, lines 106-109 and 130-133
HandlerRethrowSwallowed(err) == <<>>
HandlerRethrowWrapped(err) == <<"error", "Internal server error">>
HandlerRethrow(err) == err

\* return result, lines 105 and 129
HandlerReturn(result) == result

\* The handler of request h returns val (ok) or throws val (~ok); the Server
\* answers the request it invoked the handler for with that result or error.
HandlerFinish(h, ok, val, c) ==
  LET out == IF ok THEN HandlerReturn(val) ELSE HandlerRethrow(val)
      m == Msg(reqs[h].rpc.id, ok, out, c)
      rq == [reqs EXCEPT ![h].pc = "done",
                         ![h].ret = IF ok THEN out ELSE @,
                         ![h].thrown = IF ok THEN @ ELSE out]
  IN IF reqs[h].kind = "stdio"
     THEN /\ reqs' = [rq EXCEPT ![h].msgs = @ \cup {m}]
          /\ UNCHANGED pairs
     ELSE /\ reqs' = SendReqs(pairs, rq, reqs[h].sess, m)
          /\ pairs' = SendPairs(pairs, rq, reqs[h].sess, m)

\* ================================================================ startup
\* startHTTP, lines 177-180: await this.initChromeConnection()
StartHTTP ==
  /\ Running /\ mode = "http" /\ mainPc = "start"
  /\ IF AlreadyConnected(chromeClient)
     THEN /\ UNCHANGED childVars
          /\ calls' = SendCall(calls, 0, chromeClient, NoRpc)
          /\ mainPc' = "smoke"
     ELSE /\ SpawnChild
          /\ mainPc' = "preinit"
          /\ UNCHANGED calls
  /\ UNCHANGED <<launch, mode, exited, sessVars, stdioServer, reqs, nextReq, timerVars, cleanups>>

\* startStdio, lines 346-352: createServerForSession("stdio"); await server.connect(transport)
StartStdio ==
  /\ Running /\ mode = "stdio" /\ mainPc = "start"
  /\ mainPc' = "stdio_connect"
  /\ stdioServer' = "created"
  /\ UNCHANGED <<launch, mode, exited, childVars, sessVars, reqs, nextReq, calls, timerVars, cleanups>>

\* line 352 resolves, or rejects into main's catch, lines 371-374: process.exit(1)
StdioConnectDone(ok) ==
  /\ Running /\ mainPc = "stdio_connect"
  /\ IF ok
     THEN mainPc' = "serving" /\ stdioServer' = "connected" /\ UNCHANGED exited
     ELSE mainPc' = "failed" /\ exited' = 1 /\ UNCHANGED stdioServer
  /\ UNCHANGED <<launch, mode, childVars, sessVars, reqs, nextReq, calls, timerVars, cleanups>>

\* httpServer.on("error"), lines 335-343: the listener cannot bind; process.exit(1)
ListenErrorExitsZero ==
  /\ Running /\ mainPc = "listening" /\ nextReq = 0
  /\ exited' = 0
  /\ UNCHANGED <<launch, mode, mainPc, childVars, sessVars, stdioServer, reqs, nextReq, calls,
                 timerVars, cleanups>>
ListenError ==
  /\ Running /\ mainPc = "listening" /\ nextReq = 0
  /\ exited' = 1
  /\ UNCHANGED <<launch, mode, mainPc, childVars, sessVars, stdioServer, reqs, nextReq, calls,
                 timerVars, cleanups>>

\* startHTTP's catch of lines 187-190: the failure of the pre-initialization is
\* logged and startHTTP goes on to createServer and listen
PreInitFatal == "failed"
PreInitCaught == "listening"

\* ================================================== child-side completions
\* The caller a completed child call resumes: `const result = await
\* this.chromeClient.listTools()/callTool(...)`, lines 102 and 122, binds the
\* result to the handler invocation that issued the call.
AwaiterOldest(c) ==
  LET waiting == {h \in ReqIds : reqs[h].pc = "call"}
  IN IF waiting = {} THEN c ELSE CHOOSE h \in waiting : \A u \in waiting : h <= u
Awaiter(c) == c

\* await this.chromeClient.connect(transport), line 77, resolves (ok) or rejects
\* into the catch of lines 79-82, which rethrows to the caller: startHTTP
\* (lines 179-190) or a handler (lines 96-109, 116-133).
ClientConnectDone(c, ok) ==
  /\ Running
  /\ c \in 1..Len(clients) /\ clients[c] = "connecting"
  /\ clients' = [clients EXCEPT ![c] = IF ok THEN "ready" ELSE "failed"]
  /\ UNCHANGED <<launch, mode, exited, chromeClient, activeSessions, stdioServer, nextReq,
                 timerVars, cleanups>>
  /\ \/ /\ mainPc = "preinit" /\ c = 1
        /\ IF ok
           THEN \* line 184: await this.chromeClient!.listTools()
                /\ calls' = SendCall(calls, 0, chromeClient, NoRpc)
                /\ mainPc' = "smoke"
           ELSE \* lines 187-190, then createServer and listen
                /\ mainPc' = PreInitCaught
                /\ UNCHANGED calls
        /\ UNCHANGED <<reqs, pairs>>
     \/ \E h \in ReqIds :
          /\ reqs[h].pc = "init" /\ reqs[h].await = c
          /\ UNCHANGED mainPc
          /\ IF ~ok
             THEN HandlerFinish(h, FALSE, ConnectError, 0) /\ UNCHANGED calls
             ELSE IF chromeClient = 0
             THEN HandlerFinish(h, FALSE, NotInitializedError, 0) /\ UNCHANGED calls
             ELSE /\ calls' = SendCall(calls, h, chromeClient, reqs[h].rpc)
                  /\ reqs' = [reqs EXCEPT ![h].pc = "call", ![h].await = 0]
                  /\ UNCHANGED pairs

\* The child (or the Client, when the connection is absent, was never
\* established or has dropped) settles a pending listTools/callTool: a result
\* only from an established connection, an error at any time.
ChildCallDone(c, ok, val) ==
  /\ Running
  /\ calls[c].state = "pending"
  /\ ok => /\ clients[calls[c].client] = "ready"
           /\ val = ChildResult(calls[c].method, calls[c].name, calls[c].args)
  /\ calls' = [calls EXCEPT ![c].state = IF ok THEN "ok" ELSE "err", ![c].result = val]
  /\ UNCHANGED <<launch, mode, exited, childVars, activeSessions, stdioServer, nextReq, timerVars,
                 cleanups>>
  /\ IF c = 0
     THEN \* startHTTP's smoke test, lines 184-190: either way the listener starts
          /\ mainPc = "smoke"
          /\ mainPc' = IF ok THEN "listening" ELSE PreInitCaught
          /\ UNCHANGED <<reqs, pairs>>
     ELSE /\ reqs[Awaiter(c)].pc = "call"
          /\ HandlerFinish(Awaiter(c), ok, val, c)
          /\ UNCHANGED mainPc

\* ================================================================== stdio
\* A ListTools/CallTool request read from stdin in stdio mode: the Server invokes
\* the handler registered by setupHandlers.
StdioRequest(rpc) ==
  /\ Running /\ mainPc = "serving" /\ nextReq < MaxReq
  /\ nextReq' = nextReq + 1
  /\ HandlerBegin(nextReq + 1, rpc)
  /\ reqs' = [reqs EXCEPT ![nextReq + 1] =
                [IdleReq EXCEPT !.kind = "stdio", !.rpc = rpc, !.pc = HandlerBeginPc,
                                !.await = HandlerBeginAwait]]
  /\ UNCHANGED <<launch, mode, mainPc, exited, sessVars, stdioServer, timerVars, cleanups>>

\* ========================================================== HTTP listener
\* lines 219, 234 and 316: if (req.url === "/health") ... if (req.url === "/mcp"
\* || req.url?.startsWith("/mcp")) ... else 404
RouterExactPath(url) ==
  IF url = HealthUrl THEN "health" ELSE IF url = McpUrl THEN "mcp" ELSE "other"
StartsWith(u, prefix) == Len(u) >= Len(prefix) /\ SubSeq(u, 1, Len(prefix)) = prefix
Router(url) ==
  IF url = HealthUrl THEN "health"
  ELSE IF url = McpUrl \/ StartsWith(url, McpUrl) THEN "mcp"
  ELSE "other"

\* the request listener runs once httpServer.listen (lines 321-333) was reached,
\* which is after the pre-initialization of lines 177-190
ListeningEarly == Running /\ mainPc \in {"preinit", "smoke", "listening"} /\ nextReq < MaxReq
Listening == Running /\ mainPc = "listening" /\ nextReq < MaxReq

Get(key) == {e[2] : e \in {e \in activeSessions : e[1] = key}}
Set(key, p) == {e \in activeSessions : e[1] # key} \cup {<<key, p>>}
Delete(key) == {e \in activeSessions : e[1] # key}

\* lines 219-231: if (req.url === "/health") { writeHead(200); end({... chrome_connected:
\* this.chromeClient !== null ...}); return; }
HealthConnectedFlag == chromeClient # 0
HealthRequestReconnecting ==
  /\ Listening
  /\ nextReq' = nextReq + 1
  /\ reqs' = [reqs EXCEPT ![nextReq + 1] =
                [IdleReq EXCEPT !.kind = "health", !.url = HealthUrl,
                                !.method = "GET", !.pc = "done",
                                !.status = 200, !.ended = TRUE, !.heads = 1,
                                !.chrome_connected = HealthConnectedFlag]]
  /\ IF chromeClient # 0 /\ clients[chromeClient] = "ready"
     THEN UNCHANGED childVars
     ELSE SpawnChild
  /\ UNCHANGED <<launch, mode, mainPc, exited, sessVars, stdioServer, calls, timerVars, cleanups>>
HealthRequestAt(method, url) ==
  /\ Listening /\ Router(url) = "health"
  /\ nextReq' = nextReq + 1
  /\ reqs' = [reqs EXCEPT ![nextReq + 1] =
                [IdleReq EXCEPT !.kind = "health", !.url = url, !.method = method,
                                !.pc = "done",
                                !.status = 200, !.ended = TRUE, !.heads = 1,
                                !.chrome_connected = HealthConnectedFlag]]
  /\ UNCHANGED <<launch, mode, mainPc, exited, childVars, sessVars, stdioServer, calls, timerVars,
                 cleanups>>
HealthRequest == HealthRequestAt("GET", HealthUrl)

\* lines 316-318: every url that is neither /health nor /mcp*
NotFoundRequestAt(method, url) ==
  /\ Listening /\ Router(url) = "other"
  /\ nextReq' = nextReq + 1
  /\ reqs' = [reqs EXCEPT ![nextReq + 1] =
                [IdleReq EXCEPT !.kind = "other", !.url = url, !.method = method,
                                !.pc = "done",
                                !.status = 404, !.ended = TRUE, !.heads = 1]]
  /\ UNCHANGED <<launch, mode, mainPc, exited, childVars, sessVars, stdioServer, calls, timerVars,
                 cleanups>>
NotFoundRequest == NotFoundRequestAt("GET", RootUrl)

\* lines 269-295 for a request whose `session` is pair p: a GET registers
\* cleanupSession on the response's close and finish, then every request is
\* handed to session.transport.handleRequest(req, res), which is awaited.
Forwarding(q, p) ==
  [q EXCEPT !.pc = "forward", !.sess = p, !.listeners = (q.method = "GET")]

\* line 253: let session = this.activeSessions.get(sharedSessionId): one key
\* for every request, whatever its path suffix, method or peer
SessionForPerPath(method, url) == IF url = McpUrl THEN Get(sharedSessionId) ELSE {}
SessionFor(method, url) == Get(sharedSessionId)

\* the GET exchanges that reached the /mcp branch
Streams == {g \in ReqIds : reqs[g].kind = "mcp" /\ reqs[g].method = "GET"}

\* lines 251-267, a GET or POST/PUT on /mcp*: the registry lookup, and for a miss
\* the construction of a pair and the await of server.connect(transport)
McpRequestAt(method, url, rpc) ==
  /\ Listening /\ Router(url) = "mcp"
  /\ nextReq' = nextReq + 1
  /\ LET r == nextReq + 1
         q == [IdleReq EXCEPT !.kind = "mcp", !.url = url, !.method = method, !.rpc = rpc]
         session == SessionFor(method, url)
     IN IF session # {}
        THEN /\ reqs' = [reqs EXCEPT ![r] = Forwarding(q, CHOOSE p \in session : TRUE)]
             /\ UNCHANGED pairs
        ELSE /\ reqs' = [reqs EXCEPT ![r] = [q EXCEPT !.pc = "connect"]]
             /\ pairs' = [pairs EXCEPT ![r].transport = "open", ![r].server = "created"]
  /\ UNCHANGED <<launch, mode, mainPc, exited, childVars, activeSessions, stdioServer, calls,
                 timerVars, cleanups>>
McpRequest(method, rpc) == McpRequestAt(method, McpUrl, rpc)
\* a GET on /mcp, for as many event streams as a run explores
StreamRequest == Cardinality(Streams) < MaxStreams /\ McpRequest("GET", NoRpc)

\* lines 243-249: OPTIONS on /mcp*: res.writeHead(200); res.end(); return
OptionsRequestAtForwarding(url) == McpRequestAt("OPTIONS", url, NoRpc)
OptionsRequestAt(url) ==
  /\ Listening /\ Router(url) = "mcp"
  /\ nextReq' = nextReq + 1
  /\ reqs' = [reqs EXCEPT ![nextReq + 1] =
                [IdleReq EXCEPT !.kind = "mcp", !.url = url, !.method = "OPTIONS",
                                !.pc = "done",
                                !.status = 200, !.ended = TRUE, !.heads = 1]]
  /\ UNCHANGED <<launch, mode, mainPc, exited, childVars, sessVars, stdioServer, calls, timerVars,
                 cleanups>>
OptionsRequest == OptionsRequestAt(McpUrl)

\* The request listener of lines 192-319 for one inbound request: the branch
\* on req.url, and inside the /mcp branch on req.method
Request(method, url) ==
  \/ HealthRequestAt(method, url)
  \/ NotFoundRequestAt(method, url)
  \/ method = "OPTIONS" /\ OptionsRequestAt(url)
  \/ method = "GET" /\ McpRequestAt(method, url, NoRpc)
  \/ method = "PUT" /\ McpRequestAt(method, url, NoRpc)
  \/ method = "POST" /\ \E rpc \in Rpcs : McpRequestAt(method, url, rpc)

\* The catch block of the /mcp branch, lines 298-312, for exchange r with
\* record q: the error is logged; if (!res.headersSent) the listener writes the
\* head 500 and ends the response with {error, message, requestId}; else nothing.
ErrorBody(r, err) ==
  [error |-> "Internal server error", message |-> err[2], requestId |-> r]
CatchBlockAlwaysWrites(q, r, err) ==
  [q EXCEPT !.pc = "done", !.caught = [error |-> err, headersSent |-> q.heads > 0],
            !.status = 500, !.heads = @ + 1, !.ended = TRUE, !.body = ErrorBody(r, err)]
CatchBlock(q, r, err) ==
  IF q.heads = 0
  THEN [q EXCEPT !.pc = "done", !.caught = [error |-> err, headersSent |-> FALSE],
                 !.status = 500, !.heads = @ + 1, !.ended = TRUE,
                 !.body = ErrorBody(r, err)]
  ELSE [q EXCEPT !.pc = "done", !.caught = [error |-> err, headersSent |-> TRUE]]

\* line 263 resolves: lines 265-266 store the pair, then lines 269-295; or it
\* rejects into the catch of lines 298-311: 500, no response was started yet
ServerConnectDoneStoresAnyway(r, ok) ==
  /\ Running /\ reqs[r].pc = "connect"
  /\ activeSessions' = Set(sharedSessionId, r)
  /\ IF ok
     THEN /\ pairs' = [pairs EXCEPT ![r].server = "connected"]
          /\ reqs' = [reqs EXCEPT ![r] = Forwarding(@, r)]
     ELSE /\ reqs' = [reqs EXCEPT ![r] = CatchBlock([@ EXCEPT !.thrown = ConnectError],
                                                    r, ConnectError)]
          /\ UNCHANGED pairs
  /\ UNCHANGED <<launch, mode, mainPc, exited, childVars, stdioServer, nextReq, calls, timerVars, cleanups>>
ServerConnectDone(r, ok) ==
  /\ Running /\ reqs[r].pc = "connect"
  /\ IF ok
     THEN /\ pairs' = [pairs EXCEPT ![r].server = "connected"]
          /\ activeSessions' = Set(sharedSessionId, r)
          /\ reqs' = [reqs EXCEPT ![r] = Forwarding(@, r)]
     ELSE /\ reqs' = [reqs EXCEPT ![r] = CatchBlock([@ EXCEPT !.thrown = ConnectError],
                                                    r, ConnectError)]
          /\ UNCHANGED <<pairs, activeSessions>>
  /\ UNCHANGED <<launch, mode, mainPc, exited, childVars, stdioServer, nextReq, calls, timerVars, cleanups>>

\* session.transport.handleRequest(req, res), line 295, answers the request
\* itself (a status of its own, the exchange ended): a GET it does not accept,
\* a body that is no JSON-RPC request, a missing or unknown session header
TransportRejects(r) ==
  /\ Running /\ reqs[r].pc = "forward"
  /\ reqs' = [reqs EXCEPT ![r].pc = "done", ![r].status = 400, ![r].ended = TRUE,
                          ![r].heads = @ + 1]
  /\ UNCHANGED <<launch, mode, mainPc, exited, childVars, sessVars, stdioServer, nextReq, calls,
                 timerVars, cleanups>>

\* line 295 rejects, before or after the transport has written the response
\* head (headersSent); then the catch block of lines 298-312
TransportThrows(r, headersSent) ==
  /\ Running /\ reqs[r].pc = "forward"
  /\ LET q == IF headersSent
              THEN [reqs[r] EXCEPT !.status = 200, !.heads = @ + 1]
              ELSE reqs[r]
     IN reqs' = [reqs EXCEPT ![r] = CatchBlock([q EXCEPT !.thrown = TransportError],
                                               r, TransportError)]
  /\ UNCHANGED <<launch, mode, mainPc, exited, childVars, sessVars, stdioServer, nextReq, calls,
                 timerVars, cleanups>>

\* line 295 for a GET the transport accepts: the event stream is opened and stays open
TransportOpensStream(r) ==
  /\ Running /\ reqs[r].pc = "forward" /\ reqs[r].method = "GET"
  /\ reqs' = [reqs EXCEPT ![r].pc = "done", ![r].status = 200, ![r].stream = TRUE,
                          ![r].heads = @ + 1]
  /\ UNCHANGED <<launch, mode, mainPc, exited, childVars, sessVars, stdioServer, nextReq, calls,
                 timerVars, cleanups>>

\* line 295 for a POST carrying a JSON-RPC request: the transport starts the
\* response stream, registers the request id for it and hands the message to
\* the session's server, which invokes the ListTools/CallTool handler.
TransportDispatches(r) ==
  /\ Running /\ reqs[r].pc = "forward" /\ reqs[r].method = "POST"
  /\ HandlerBegin(r, reqs[r].rpc)
  /\ reqs' = [reqs EXCEPT ![r].pc = HandlerBeginPc, ![r].await = HandlerBeginAwait,
                          ![r].status = 200, ![r].stream = TRUE, ![r].heads = @ + 1]
  /\ pairs' = [pairs EXCEPT ![reqs[r].sess].route[reqs[r].rpc.id] = r]
  /\ UNCHANGED <<launch, mode, mainPc, exited, activeSessions, stdioServer, nextReq, timerVars, cleanups>>

\* cleanupSession, lines 271-287: setTimeout(..., 100)
ArmTimer(tm, r, ev) ==
  [tm EXCEPT ![<<r, ev>>] =
     [pc |-> "armed", sess |-> 0, sclosed |-> FALSE,
      atEvent |-> IF Get(sharedSessionId) = {} THEN 0
                  ELSE CHOOSE p \in Get(sharedSessionId) : TRUE]]

\* The peer of exchange r goes away while its response stream is open: the
\* response emits close, which runs cleanupSession if it was registered.
ClientDisconnectsRemoving(r) ==
  /\ Running /\ StreamOpen(reqs[r])
  /\ reqs' = [reqs EXCEPT ![r].gone = TRUE]
  /\ timers' = ArmTimer(timers, r, "close")
  /\ timerQueue' = Append(timerQueue, <<r, "close">>)
  /\ UNCHANGED <<launch, mode, mainPc, exited, childVars, sessVars, stdioServer, nextReq, calls,
                 cleanups>>
ClientDisconnects(r) ==
  /\ Running /\ StreamOpen(reqs[r])
  /\ reqs' = [reqs EXCEPT ![r].gone = TRUE]
  /\ IF reqs[r].listeners
     THEN /\ timers' = ArmTimer(timers, r, "close")
          /\ timerQueue' = Append(timerQueue, <<r, "close">>)
     ELSE UNCHANGED timerVars
  /\ UNCHANGED <<launch, mode, mainPc, exited, childVars, sessVars, stdioServer, nextReq, calls,
                 cleanups>>

\* res.end() has flushed: the response of a GET emits finish and then close,
\* and each runs cleanupSession (lines 289-290).
ResponseFinishes(r) ==
  /\ Running /\ reqs[r].listeners /\ reqs[r].ended /\ ~reqs[r].gone
  /\ timers[<<r, "finish">>].pc = "none"
  /\ timers' = ArmTimer(ArmTimer(timers, r, "finish"), r, "close")
  /\ timerQueue' = timerQueue \o << <<r, "finish">>, <<r, "close">> >>
  /\ UNCHANGED <<launch, mode, mainPc, exited, childVars, sessVars, stdioServer, reqs, nextReq,
                 calls, cleanups>>

\* ===================================================== closing a session
\* transport.close(): every stream the transport holds is ended, its request
\* registrations are dropped.
CloseTransportPairs(pr, p) ==
  [pr EXCEPT ![p].transport = "closed", ![p].route = [i \in RpcIds |-> 0]]
CloseTransportReqs(rq, p) ==
  [r \in ReqIds |-> IF rq[r].sess = p /\ StreamOpen(rq[r])
                    THEN [rq[r] EXCEPT !.ended = TRUE] ELSE rq[r]]

\* The callback of setTimeout(..., 100), lines 274-286, up to its first await
\* (callbacks of one delay run in the order they were scheduled):
\* const sess = get(sharedSessionId); if (sess) { delete(sharedSessionId);
\* await sess.transport.close(); ... }.  Deleting the key ends the Map entry a
\* running cleanup() loop may already have passed.
SessionToRemoveStale(t) == IF timers[t].atEvent = 0 THEN {} ELSE {timers[t].atEvent}
SessionToRemove(t) == Get(sharedSessionId)
TimerFires(r, ev) ==
  /\ Running /\ timerQueue # <<>> /\ Head(timerQueue) = <<r, ev>>
  /\ timerQueue' = Tail(timerQueue)
  /\ IF SessionToRemove(<<r, ev>>) # {}
     THEN /\ timers' = [timers EXCEPT ![<<r, ev>>].pc = "tclose",
                          ![<<r, ev>>].sess = CHOOSE p \in SessionToRemove(<<r, ev>>) : TRUE]
          /\ activeSessions' = Delete(sharedSessionId)
          /\ cleanups' = [k \in DOMAIN cleanups |-> [cleanups[k] EXCEPT !.visited = FALSE]]
     ELSE /\ timers' = [timers EXCEPT ![<<r, ev>>].pc = "done"]
          /\ UNCHANGED <<activeSessions, cleanups>>
  /\ UNCHANGED <<launch, mode, mainPc, exited, childVars, pairs, stdioServer, reqs, nextReq, calls>>

\* line 280 resolves: line 281, await sess.server.close(); or it rejects into
\* the catch of lines 282-284, which skips line 281
TimerTransportClosed(r, ev, ok) ==
  /\ Running /\ timers[<<r, ev>>].pc = "tclose"
  /\ IF ok
     THEN /\ pairs' = CloseTransportPairs(pairs, timers[<<r, ev>>].sess)
          /\ reqs' = CloseTransportReqs(reqs, timers[<<r, ev>>].sess)
          /\ timers' = [timers EXCEPT ![<<r, ev>>].pc = "sclose",
                                      ![<<r, ev>>].sclosed = TRUE]
     ELSE /\ timers' = [timers EXCEPT ![<<r, ev>>].pc = "caught"]
          /\ UNCHANGED <<pairs, reqs>>
  /\ UNCHANGED <<launch, mode, mainPc, exited, childVars, activeSessions, stdioServer, nextReq,
                 calls, timerQueue, cleanups>>

\* line 281 resolves or rejects (lines 282-284)
TimerServerClosedResetsChild(r, ev, ok) ==
  /\ Running /\ timers[<<r, ev>>].pc = "sclose"
  /\ timers' = [timers EXCEPT ![<<r, ev>>].pc = IF ok THEN "done" ELSE "caught"]
  /\ pairs' = IF ok THEN [pairs EXCEPT ![timers[<<r, ev>>].sess].server = "closed"] ELSE pairs
  /\ chromeClient' = 0
  /\ UNCHANGED <<launch, mode, mainPc, exited, clients, activeSessions, stdioServer, reqs, nextReq,
                 calls, timerQueue, cleanups>>
TimerServerClosed(r, ev, ok) ==
  /\ Running /\ timers[<<r, ev>>].pc = "sclose"
  /\ timers' = [timers EXCEPT ![<<r, ev>>].pc = IF ok THEN "done" ELSE "caught"]
  /\ pairs' = IF ok THEN [pairs EXCEPT ![timers[<<r, ev>>].sess].server = "closed"] ELSE pairs
  /\ UNCHANGED <<launch, mode, mainPc, exited, childVars, activeSessions, stdioServer, reqs, nextReq,
                 calls, timerQueue, cleanups>>

\* =============================================================== shutdown
\* cleanup(), lines 151-174, from the head of the for-of loop over
\* this.activeSessions.entries() (a live Map iterator: an entry is visited
\* once, an entry added after a delete is a new one) to the next await, or to
\* process.exit(0) of lines 141 and 147.
CleanupContinueChildFirst(k, cs) ==
  IF chromeClient # 0
  THEN /\ cleanups' = [cs EXCEPT ![k].pc = "cclose", ![k].sess = chromeClient,
                                 ![k].child = "called"]
       /\ UNCHANGED <<activeSessions, exited>>
  ELSE /\ cleanups' = [cs EXCEPT ![k].pc = "done", ![k].child = "absent"]
       /\ activeSessions' = {}
       /\ exited' = 0
CleanupContinue(k, cs) ==
  IF Get(sharedSessionId) # {} /\ ~cs[k].visited
  THEN /\ cleanups' = [cs EXCEPT ![k].pc = "tclose", ![k].visited = TRUE,
                                 ![k].sess = CHOOSE p \in Get(sharedSessionId) : TRUE,
                                 ![k].tried = @ \cup Get(sharedSessionId)]
       /\ UNCHANGED <<activeSessions, exited>>
  ELSE /\ activeSessions' = {}
       /\ IF chromeClient # 0
          THEN /\ cleanups' = [cs EXCEPT ![k].pc = "cclose", ![k].sess = chromeClient,
                                         ![k].child = "called"]
               /\ UNCHANGED exited
          ELSE /\ cleanups' = [cs EXCEPT ![k].pc = "done", ![k].child = "absent"]
               /\ exited' = 0

\* catch (err) { console.error(`[Shutdown] Error closing session ...`) }, lines
\* 159-161: the error of one session's close is logged and the loop goes on
SessionCloseUncaught(k, cs) ==
  /\ cleanups' = [cs EXCEPT ![k].pc = "done", ![k].errs = @ + 1]
  /\ exited' = 0
  /\ UNCHANGED activeSessions
SessionCloseCaught(k, cs) == CleanupContinue(k, [cs EXCEPT ![k].errs = @ + 1])

\* the forwarded tools/call requests whose exchange awaits its response
AwaitingResponse ==
  {h \in ReqIds : /\ reqs[h].kind = "mcp" /\ reqs[h].rpc.method = "tools/call"
                  /\ reqs[h].pc \in {"init", "call"} /\ StreamOpen(reqs[h])}

\* process.on("SIGINT" | "SIGTERM"), lines 138-148: await this.cleanup()
SignalUpTo(n) ==
  /\ Running /\ Len(cleanups) < n
  /\ CleanupContinue(Len(cleanups) + 1,
                     Append(cleanups, [NoCleanup EXCEPT !.atSignal = Get(sharedSessionId),
                                                        !.inFlight = AwaitingResponse]))
  /\ UNCHANGED <<launch, mode, mainPc, childVars, pairs, stdioServer, reqs, nextReq, calls, timerVars>>
Signal == SignalUpTo(MaxSignals)

\* line 157 resolves: line 158, await session.server.close(); or it rejects
\* into the catch of lines 159-161 and the loop goes on
CleanupTransportClosed(k, ok) ==
  /\ Running /\ k \in DOMAIN cleanups /\ cleanups[k].pc = "tclose"
  /\ IF ok
     THEN /\ pairs' = CloseTransportPairs(pairs, cleanups[k].sess)
          /\ reqs' = CloseTransportReqs(reqs, cleanups[k].sess)
          /\ cleanups' = [cleanups EXCEPT ![k].pc = "sclose",
                                          ![k].stried = @ \cup {cleanups[k].sess}]
          /\ UNCHANGED <<activeSessions, exited>>
     ELSE /\ SessionCloseCaught(k, cleanups)
          /\ UNCHANGED <<pairs, reqs>>
  /\ UNCHANGED <<launch, mode, mainPc, childVars, stdioServer, nextReq, calls, timerVars>>

\* line 158 resolves or rejects (lines 159-161); the loop goes on
CleanupServerClosed(k, ok) ==
  /\ Running /\ k \in DOMAIN cleanups /\ cleanups[k].pc = "sclose"
  /\ pairs' = IF ok THEN [pairs EXCEPT ![cleanups[k].sess].server = "closed"] ELSE pairs
  /\ IF ok THEN CleanupContinue(k, cleanups) ELSE SessionCloseCaught(k, cleanups)
  /\ UNCHANGED <<launch, mode, mainPc, childVars, stdioServer, reqs, nextReq, calls, timerVars>>

\* line 166 resolves: line 167, this.chromeClient = null; or it rejects into the
\* catch of lines 171-173.  Either way cleanup() returns and the signal handler
\* calls process.exit(0).
CleanupClientClosed(k, ok) ==
  /\ Running /\ k \in DOMAIN cleanups /\ cleanups[k].pc = "cclose"
  /\ cleanups' = [cleanups EXCEPT ![k].pc = "done"]
  /\ exited' = 0
  /\ IF ok
     THEN /\ clients' = [clients EXCEPT ![cleanups[k].sess] = "closed"]
          /\ chromeClient' = 0
     ELSE UNCHANGED childVars
  /\ UNCHANGED <<launch, mode, mainPc, sessVars, stdioServer, reqs, nextReq, calls, timerVars>>

\* =================================================================== Next
Next ==
  \/ StartHTTP
  \/ StartStdio
  \/ \E ok \in BOOLEAN : StdioConnectDone(ok)
  \/ ListenError
  \/ \E c \in 1..(MaxReq + 1), ok \in BOOLEAN : ClientConnectDone(c, ok)
  \/ \E c \in 0..MaxReq :
       ChildCallDone(c, TRUE, ChildResult(calls[c].method, calls[c].name, calls[c].args))
  \/ \E c \in 0..MaxReq, v \in ChildErrors : ChildCallDone(c, FALSE, v)
  \/ \E rpc \in Rpcs : StdioRequest(rpc)
  \/ HealthRequest
  \/ NotFoundRequest
  \/ OptionsRequest
  \/ StreamRequest
  \/ \E rpc \in Rpcs : McpRequest("POST", rpc)
  \/ \E r \in ReqIds, ok \in BOOLEAN : ServerConnectDone(r, ok)
  \/ \E r \in ReqIds : TransportRejects(r)
  \/ \E r \in ReqIds, hs \in BOOLEAN : TransportThrows(r, hs)
  \/ \E r \in ReqIds : TransportOpensStream(r)
  \/ \E r \in ReqIds : TransportDispatches(r)
  \/ \E r \in ReqIds : ClientDisconnects(r)
  \/ \E r \in ReqIds : ResponseFinishes(r)
  \/ \E r \in ReqIds, ev \in Events : TimerFires(r, ev)
  \/ \E r \in ReqIds, ev \in Events, ok \in BOOLEAN : TimerTransportClosed(r, ev, ok)
  \/ \E r \in ReqIds, ev \in Events, ok \in BOOLEAN : TimerServerClosed(r, ev, ok)
  \/ Signal
  \/ \E k \in 1..MaxSignals, ok \in BOOLEAN : CleanupTransportClosed(k, ok)
  \* a rejected server.close() or chromeClient.close() of cleanup() is explored
  \* under NextShutdown
  \/ \E k \in 1..MaxSignals : CleanupServerClosed(k, TRUE)
  \/ \E k \in 1..MaxSignals : CleanupClientClosed(k, TRUE)

Spec == Init /\ [][Next]_vars

\* The HTTP listener under every method and url, without termination signals
NextRouter ==
  \/ StartHTTP
  \/ \E ok \in BOOLEAN : ClientConnectDone(1, ok)
  \/ \E c \in 0..MaxReq :
       ChildCallDone(c, TRUE, ChildResult(calls[c].method, calls[c].name, calls[c].args))
  \/ \E c \in 0..MaxReq, v \in ChildErrors : ChildCallDone(c, FALSE, v)
  \/ \E method \in Methods, url \in Urls : Request(method, url)
  \/ \E r \in ReqIds, ok \in BOOLEAN : ServerConnectDone(r, ok)
  \/ \E r \in ReqIds : TransportRejects(r)
  \/ \E r \in ReqIds, hs \in BOOLEAN : TransportThrows(r, hs)
  \/ \E r \in ReqIds : TransportOpensStream(r)
  \/ \E r \in ReqIds : TransportDispatches(r)
  \/ \E r \in ReqIds : ClientDisconnects(r)
  \/ \E r \in ReqIds : ResponseFinishes(r)
  \/ \E r \in ReqIds, ev \in Events : TimerFires(r, ev)
  \/ \E r \in ReqIds, ev \in Events, ok \in BOOLEAN : TimerTransportClosed(r, ev, ok)
  \/ \E r \in ReqIds, ev \in Events, ok \in BOOLEAN : TimerServerClosed(r, ev, ok)

InitRouter == Init /\ mode = "http"
SpecRouter == InitRouter /\ [][NextRouter]_vars

\* Every way of starting the process (argv and MCP_TRANSPORT), the startup of
\* the mode main() selects, and the first requests
NextMode ==
  \/ StartHTTP
  \/ StartStdio
  \/ \E ok \in BOOLEAN : StdioConnectDone(ok)
  \/ \E c \in 1..(MaxReq + 1), ok \in BOOLEAN : ClientConnectDone(c, ok)
  \/ \E c \in 0..MaxReq :
       ChildCallDone(c, TRUE, ChildResult(calls[c].method, calls[c].name, calls[c].args))
  \/ \E c \in 0..MaxReq, v \in ChildErrors : ChildCallDone(c, FALSE, v)
  \/ \E rpc \in Rpcs : StdioRequest(rpc)
  \/ HealthRequest
  \/ NotFoundRequest

InitMode == InitOf(Launches)
SpecMode == InitMode /\ [][NextMode]_vars

\* Shutdown under repeated termination signals: HTTP mode, GET requests that
\* create and use the session, and one cleanup() per signal
NextShutdown ==
  \/ StartHTTP
  \/ \E ok \in BOOLEAN : ClientConnectDone(1, ok)
  \/ ChildCallDone(0, TRUE, ChildResult(calls[0].method, calls[0].name, calls[0].args))
  \/ \E v \in ChildErrors : ChildCallDone(0, FALSE, v)
  \/ McpRequest("GET", NoRpc)
  \/ \E r \in ReqIds, ok \in BOOLEAN : ServerConnectDone(r, ok)
  \/ \E r \in ReqIds : TransportOpensStream(r)
  \/ SignalUpTo(MaxShutdownSignals)
  \/ \E k \in 1..MaxShutdownSignals, ok \in BOOLEAN : CleanupTransportClosed(k, ok)
  \/ \E k \in 1..MaxShutdownSignals, ok \in BOOLEAN : CleanupServerClosed(k, ok)
  \/ \E k \in 1..MaxShutdownSignals, ok \in BOOLEAN : CleanupClientClosed(k, ok)

InitShutdown == InitOf({[argv |-> <<>>, env |-> "-"]})
SpecShutdown == InitShutdown /\ [][NextShutdown]_vars

\* ================================================================= claims
Key(p) == <<sharedSessionId, p>>
Established == chromeClient # 0 /\ clients[chromeClient] = "ready"
HandlerBegins(h) == reqs[h].pc \in {"idle", "forward"} /\ reqs'[h].pc \in {"init", "call"}
InFlight(h) == reqs[h].pc \in {"init", "call"}

\* C1: over every interleaving of the startup pre-initialization and the
\* ListTools/CallTool handlers, at most one Client (one child process) is ever
\* constructed, also when several callers enter initChromeConnection before the
\* first connect has completed.
C1_SpawnAtMostOnce == Len(clients) <= 1
\* a second handler entered initChromeConnection while the first one's connect
\* was still pending, and went on to its child call
C1_Witness ==
  /\ Len(clients) = 1 /\ clients[1] = "connecting"
  /\ \E h1, h2 \in ReqIds : h1 # h2 /\ reqs[h1].pc = "init" /\ reqs[h2].pc = "call"

\* C2: a handler that starts after a failed initChromeConnection (the current
\* client's connect was rejected) attempts to establish the child connection
\* again.
C2_RetryAfterFailedInit ==
  [][\A h \in ReqIds :
       (HandlerBegins(h) /\ chromeClient # 0 /\ clients[chromeClient] = "failed")
         => reqs'[h].pc = "init"]_vars

\* C3: every response delivered on the exchange of a request carries that
\* request's JSON-RPC id, and was produced from the child call that was forwarded
\* for a request of that id, whatever the order in which the child completes the
\* calls in flight.
C3_ResponseCarriesRequestId ==
  \A r \in ReqIds : \A m \in reqs[r].msgs :
    /\ m.id = reqs[r].rpc.id
    /\ m.call # 0 => calls[m.call].forId = m.id
\* a later request of another id has its response while an earlier one is still
\* awaiting the child
C3_Witness ==
  \E r1, r2 \in ReqIds :
    /\ r1 < r2 /\ reqs[r1].pc = "call" /\ reqs[r1].rpc.id # reqs[r2].rpc.id
    /\ \E m \in reqs[r2].msgs : m.ok /\ m.call = r2

\* C4: at most one session (a connected server/transport pair of which neither
\* object has been closed) exists at any time.
LiveSession(p) == pairs[p].server = "connected" /\ pairs[p].transport = "open"
C4_AtMostOneSession == Cardinality({p \in ReqIds : LiveSession(p)}) <= 1

\* C5: the grace timer of a GET stream's close/finish never closes the transport
\* of a session while a POST forwarded to that session has its handler in flight.
C5_TimerSparesInFlight ==
  [][\A t \in ReqIds \X Events :
       (timers[t].pc = "tclose" /\ timers'[t].pc = "sclose")
         => ~\E h \in ReqIds : reqs[h].sess = timers[t].sess /\ InFlight(h)]_vars

\* C6: once every grace timer has run to its end (no close raised, no shutdown
\* in progress), the session that was in the registry when a GET response emitted
\* close or finish is out of the registry and has its transport and server closed.
TimersSettled ==
  /\ timerQueue = <<>>
  /\ \A t \in ReqIds \X Events : timers[t].pc \in {"none", "done"}
C6_SessionClosedAfterGrace ==
  (Running /\ cleanups = <<>> /\ TimersSettled)
    => \A t \in ReqIds \X Events :
         timers[t].atEvent # 0
           => /\ Key(timers[t].atEvent) \notin activeSessions
              /\ pairs[timers[t].atEvent].transport = "closed"
              /\ pairs[timers[t].atEvent].server = "closed"

\* C7: in every state in which /health is served, the chrome_connected flag it
\* returns is true exactly when the child connection is established (handshake
\* completed, not closed).
C7_HealthFlagIffEstablished ==
  (Running /\ mainPc = "listening") => (HealthConnectedFlag <=> Established)

\* C8: handling /health answers 200 in the same step, awaiting nothing, and
\* leaves the child connection, the registry and every pair unchanged.
C8_HealthHasNoEffect ==
  [][\A r \in ReqIds :
       (reqs[r].kind = "none" /\ reqs'[r].kind = "health")
         => /\ reqs'[r].status = 200 /\ reqs'[r].ended /\ reqs'[r].pc = "done"
            /\ chromeClient' = chromeClient /\ clients' = clients
            /\ activeSessions' = activeSessions /\ pairs' = pairs
            /\ calls' = calls]_vars
\* /health was served while the child connection was not established
C8_Witness ==
  \E r \in ReqIds : reqs[r].kind = "health" /\ reqs[r].status = 200 /\ ~Established

\* C9: what a handler sends to the child is the method, name and arguments of
\* the inbound request, and what it returns is exactly the child's result of that
\* call.
C9_ForwardsVerbatim ==
  \A r \in ReqIds :
    /\ calls[r].state # "none"
         => /\ calls[r].method = reqs[r].rpc.method
            /\ calls[r].name = reqs[r].rpc.name
            /\ calls[r].args = reqs[r].rpc.args
    /\ reqs[r].ret # <<>> => calls[r].state = "ok" /\ reqs[r].ret = calls[r].result
\* a CallTool handler has returned the child's result
C9_Witness ==
  \E r \in ReqIds :
    /\ reqs[r].rpc.method = "tools/call" /\ reqs[r].ret # <<>>
    /\ reqs[r].ret = ChildResult("tools/call", reqs[r].rpc.name, reqs[r].rpc.args)

\* C10: when the child's listTools/callTool fails, the handler throws that same
\* error to the RPC-facing endpoint, the exchange gets no HTTP 500 (the error
\* travels as the JSON-RPC response of that call), and the registry and the child
\* connection stay as they were.
C10_ChildErrorPropagates ==
  [][\A h \in ReqIds :
       (reqs[h].pc = "call" /\ calls[h].state = "pending" /\ calls'[h].state = "err")
         => /\ reqs'[h].thrown = calls'[h].result
            /\ reqs'[h].status = reqs[h].status /\ reqs'[h].status # 500
            /\ \A m \in reqs'[h].msgs \ reqs[h].msgs : m.id = reqs[h].rpc.id
            /\ (reqs[h].kind = "mcp" /\ StreamOpen(reqs[h])
                  /\ Route(pairs, reqs, reqs[h].sess, reqs[h].rpc.id) = h)
                 => Msg(reqs[h].rpc.id, FALSE, calls'[h].result, h) \in reqs'[h].msgs
            /\ activeSessions' = activeSessions
            /\ chromeClient' = chromeClient /\ clients' = clients]_vars
\* a handler has thrown the child's error and its exchange carries it as a
\* JSON-RPC error
C10_Witness ==
  \E h \in ReqIds :
    /\ calls[h].state = "err" /\ reqs[h].thrown \in ChildErrors
    /\ reqs[h].kind = "mcp" /\ reqs[h].status = 200
    /\ \E m \in reqs[h].msgs : ~m.ok /\ m.val = reqs[h].thrown

\* C11: a ListTools/CallTool handler that finishes while the child connection is
\* not established finishes by throwing: it returns no result, the error is the
\* response its caller gets (on stdio always, over HTTP on the exchange the
\* transport still holds for it), and the process neither exits nor leaves the
\* state in which it serves requests.
C11_UnreachableBackendFails ==
  [][\A h \in ReqIds :
       (InFlight(h) /\ reqs'[h].pc = "done" /\ ~Established')
         => /\ reqs'[h].ret = <<>> /\ reqs'[h].thrown # <<>>
            /\ \A m \in reqs'[h].msgs \ reqs[h].msgs : ~m.ok
            /\ (\/ reqs[h].kind = "stdio"
                \/ /\ StreamOpen(reqs[h])
                   /\ Route(pairs, reqs, reqs[h].sess, reqs[h].rpc.id) = h)
                 => Msg(reqs[h].rpc.id, FALSE, reqs'[h].thrown,
                        IF reqs[h].pc = "call" THEN h ELSE 0) \in reqs'[h].msgs
            /\ exited' = -1 /\ mainPc' = mainPc]_vars
\* the connect attempt has failed, one request has been answered with an error
\* and a later one has been accepted and answered with an error too
C11_Witness ==
  /\ Running /\ chromeClient # 0 /\ clients[chromeClient] = "failed"
  /\ \E h1, h2 \in ReqIds :
       /\ h1 < h2
       /\ \A h \in {h1, h2} :
            /\ reqs[h].pc = "done" /\ reqs[h].thrown # <<>>
            /\ \E m \in reqs[h].msgs : ~m.ok /\ m.val = reqs[h].thrown

\* C12: for every inbound request at most one listTools/callTool request is sent
\* to the child, whether that call is pending, has succeeded or has failed.
C12_AtMostOneChildCall == \A r \in ReqIds : calls[r].sent <= 1
\* a forwarded call has failed and its handler is done
C12_Witness ==
  \E r \in ReqIds : calls[r].state = "err" /\ calls[r].sent = 1 /\ reqs[r].pc = "done"

C14_ShutdownOrder ==
  /\ \A k \in DOMAIN cleanups :
       cleanups[k].child # "none" => cleanups[k].atSignal \subseteq cleanups[k].tried
  /\ (exited # -1 /\ cleanups # <<>>)
       => \E k \in DOMAIN cleanups : cleanups[k].child \in {"called", "absent"}
\* the signal found a session registered; its close was called, then the child's
\* close, then the process exited
C14_Witness ==
  \E k \in DOMAIN cleanups :
    /\ cleanups[k].atSignal # {} /\ cleanups[k].atSignal \subseteq cleanups[k].stried
    /\ cleanups[k].child = "called" /\ exited = 0

\* C15: when the process has exited after a termination signal, every tools/call
\* exchange that was awaiting its response when the signal arrived has received
\* one (a result or an error), unless its peer went away.
C15_ExitWaitsForInFlight ==
  exited = 0
    => \A k \in DOMAIN cleanups : \A h \in cleanups[k].inFlight :
         reqs[h].msgs # {} \/ reqs[h].gone

\* C20: when a removal of a session has finished (the timer callback has run to
\* its end, the cleanup() loop has left the iteration), server.close() has been
\* called for that session, also when transport.close() raised.
C20_RemovalClosesServer ==
  /\ \A t \in ReqIds \X Events :
       (timers[t].pc \in {"done", "caught"} /\ timers[t].sess # 0) => timers[t].sclosed
  /\ \A k \in DOMAIN cleanups : \A p \in cleanups[k].tried :
       \/ cleanups[k].pc \in {"tclose", "sclose"} /\ cleanups[k].sess = p
       \/ p \in cleanups[k].stried

\* C16: no exchange is left hanging: once the listener has returned for an HTTP
\* exchange, its response has been ended or a stream of the session's transport
\* holds it (and ends it with the response or at the transport's close).
C16_NoExchangeLeftHanging ==
  \A r \in ReqIds :
    (reqs[r].kind \in {"mcp", "health", "other"} /\ reqs[r].pc = "done" /\ ~reqs[r].gone)
      => (reqs[r].ended \/ reqs[r].stream)

\* C17: every exchange has at most one response head; when the catch block of the
\* /mcp branch ran with no head sent, the exchange has the head 500 and ended
\* with a body carrying the error's message and the request's requestId; when a
\* head had been sent, the catch block wrote neither a head nor a body.
C17_ErrorAnsweredOnce ==
  \A r \in ReqIds :
    /\ reqs[r].heads <= 1
    /\ reqs[r].caught # NoCaught
         => IF reqs[r].caught.headersSent
            THEN reqs[r].heads = 1 /\ reqs[r].status # 500 /\ reqs[r].body = NoBody
            ELSE /\ reqs[r].heads = 1 /\ reqs[r].status = 500 /\ reqs[r].ended
                 /\ reqs[r].body = [error |-> "Internal server error",
                                    message |-> reqs[r].caught.error[2],
                                    requestId |-> r]
\* session creation threw for one exchange (500), and the transport threw for
\* another after it had sent the head
C17_Witness ==
  \E r1, r2 \in ReqIds :
    /\ reqs[r1].caught = [error |-> ConnectError, headersSent |-> FALSE]
    /\ reqs[r1].status = 500
    /\ reqs[r2].caught = [error |-> TransportError, headersSent |-> TRUE]

\* C18: a request that fails with a 500 changes neither the registry nor the
\* child connection nor any other request in the step that answers it, and
\* afterwards no cleanupSession timer of its response removes or closes a
\* session that another request created, or touches another request's exchange.
C18_LocalFailureLeavesState ==
  [][/\ \A r \in ReqIds :
          (reqs[r].status # 500 /\ reqs'[r].status = 500)
            => /\ activeSessions' = activeSessions /\ pairs' = pairs
               /\ chromeClient' = chromeClient /\ clients' = clients /\ calls' = calls
               /\ \A h \in ReqIds \ {r} : reqs'[h] = reqs[h]
     /\ \A r \in ReqIds, ev \in Events :
          (reqs[r].status = 500 /\ timers'[<<r, ev>>] # timers[<<r, ev>>])
            => /\ Get(sharedSessionId) \ {r} # {} => activeSessions' = activeSessions
               /\ \A p \in ReqIds \ {r} : pairs'[p] = pairs[p]
               /\ \A h \in ReqIds \ {r} : reqs'[h] = reqs[h]]_vars

\* C19: a step that creates, stores, removes or closes a session leaves the child
\* client as it was (nothing is spawned, connected, closed or reset), and every
\* call sent to the child, on whatever session, goes to the one client.
SessionStep ==
  \/ activeSessions' # activeSessions
  \/ \E p \in ReqIds : \/ pairs'[p].transport # pairs[p].transport
                       \/ pairs'[p].server # pairs[p].server
C19_RegistryLeavesChild ==
  [][/\ SessionStep => (chromeClient' = chromeClient /\ clients' = clients)
     /\ \A h \in ReqIds :
          (calls[h].state = "none" /\ calls'[h].state # "none")
            => (calls'[h].client = 1 /\ chromeClient' = 1 /\ Len(clients') = 1)]_vars
\* a session was removed by the timer, a new one was created, and a request on
\* the new session was forwarded to the child client connected at startup
C19_Witness ==
  \E t \in ReqIds \X Events, h \in ReqIds :
    /\ timers[t].pc = "done" /\ timers[t].sess # 0
    /\ pairs[timers[t].sess].server = "closed"
    /\ reqs[h].sess # 0 /\ reqs[h].sess # timers[t].sess
    /\ calls[h].state = "ok" /\ calls[h].client = 1 /\ clients = <<"ready">>

\* C21: when a cleanup timer fires and the registry holds no session, the
\* callback closes nothing and changes nothing: the registry, every pair, every
\* exchange, the child connection and the calls stay as they were, so the second
\* timer of one disconnect adds nothing to what the first did.
C21_RemoveAbsentIsNoOp ==
  [][\A t \in ReqIds \X Events :
       (timers[t].pc = "armed" /\ timers'[t].pc # "armed" /\ activeSessions = {})
         => /\ timers'[t].pc = "done" /\ timers'[t].sess = 0
            /\ \A u \in (ReqIds \X Events) \ {t} : timers'[u] = timers[u]
            /\ activeSessions' = activeSessions /\ pairs' = pairs /\ reqs' = reqs
            /\ chromeClient' = chromeClient /\ clients' = clients /\ calls' = calls
            /\ cleanups' = cleanups /\ exited' = exited]_vars
\* both timers of one GET exchange have run: the first removed the session, the
\* second found the registry empty
C21_Witness ==
  \E r \in ReqIds :
    /\ timers[<<r, "finish">>].pc \in {"tclose", "sclose", "done", "caught"}
    /\ timers[<<r, "finish">>].sess # 0
    /\ timers[<<r, "close">>].pc = "done" /\ timers[<<r, "close">>].sess = 0

\* C22: a session that a removal has taken out of the registry (the timer
\* callback has deleted its key, cleanup() has cleared the registry after
\* visiting it) has its transport and its server closed.
C22_ClosedBeforeRemoved ==
  /\ \A t \in ReqIds \X Events :
       (timers[t].sess # 0 /\ Key(timers[t].sess) \notin activeSessions)
         => /\ pairs[timers[t].sess].transport = "closed"
            /\ pairs[timers[t].sess].server = "closed"
  /\ \A k \in DOMAIN cleanups : \A p \in cleanups[k].tried :
       (cleanups[k].pc \in {"cclose", "done"} /\ Key(p) \notin activeSessions)
         => (pairs[p].transport = "closed" /\ pairs[p].server = "closed")

\* C23: the listener accepts every method and url, and gives each request to one
\* responder that its url alone decides: /health to the health responder (200),
\* a url that starts with /mcp to the bridging handler, every other url to the
\* 404 responder; a request of the health or the 404 responder is complete in
\* the step that accepts it, changes neither the registry nor any pair, and
\* never gets a cleanup timer.
ExpectedResponder ==
  [u \in Urls |-> IF u = <<"/", "h", "e", "a", "l", "t", "h">> THEN "health"
                  ELSE IF u \in {<<"/", "m", "c", "p">>, <<"/", "m", "c", "p", "x">>}
                       THEN "mcp" ELSE "other"]
C23_RouterTotal ==
  [][/\ Listening => \A method \in Methods, url \in Urls : ENABLED Request(method, url)
     /\ \A r \in ReqIds :
          reqs'[r].kind # "none"
            => /\ reqs'[r].kind = ExpectedResponder[reqs'[r].url]
               /\ reqs'[r].kind = "health" => reqs'[r].status = 200
               /\ reqs'[r].kind = "other" => reqs'[r].status = 404
               /\ reqs'[r].kind \in {"health", "other"}
                    => /\ reqs'[r].pc = "done" /\ reqs'[r].ended /\ reqs'[r].sess = 0
                       /\ ~reqs'[r].listeners
                       /\ \A ev \in Events : timers'[<<r, ev>>] = NoTimer
     /\ \A r \in ReqIds :
          (reqs[r].kind = "none" /\ reqs'[r].kind \in {"health", "other"})
            => (activeSessions' = activeSessions /\ pairs' = pairs)]_vars
\* a url that only starts with /mcp went to the bridging handler, and a url that
\* only starts with /health got the 404
C23_Witness ==
  \E r1, r2 \in ReqIds :
    /\ reqs[r1].url = McpUrl \o <<"x">> /\ reqs[r1].kind = "mcp"
    /\ reqs[r1].method = "POST" /\ reqs[r1].pc = "call"
    /\ reqs[r2].url = HealthUrl \o <<"z">> /\ reqs[r2].status = 404

\* C24: the step that accepts an OPTIONS request on a url starting with /mcp
\* answers it 200 with no body and ends it, hands it to no session, registers no
\* cleanup listener, and leaves the registry, the pairs, the child connection,
\* the calls and the timers unchanged.
C24_OptionsHasNoEffect ==
  [][\A r \in ReqIds :
       (reqs[r].kind = "none" /\ reqs'[r].kind = "mcp" /\ reqs'[r].method = "OPTIONS")
         => /\ reqs'[r].status = 200 /\ reqs'[r].heads = 1 /\ reqs'[r].ended
            /\ reqs'[r].body = NoBody /\ reqs'[r].msgs = {}
            /\ reqs'[r].pc = "done" /\ reqs'[r].sess = 0 /\ ~reqs'[r].listeners
            /\ activeSessions' = activeSessions /\ pairs' = pairs
            /\ chromeClient' = chromeClient /\ clients' = clients /\ calls' = calls
            /\ timers' = timers /\ timerQueue' = timerQueue]_vars
\* an OPTIONS on /mcpx was answered while no session existed, and none exists
C24_Witness ==
  \E r \in ReqIds :
    /\ reqs[r].method = "OPTIONS" /\ reqs[r].url = McpUrl \o <<"x">>
    /\ reqs[r].status = 200 /\ reqs[r].ended
    /\ activeSessions = {} /\ \A p \in ReqIds : pairs[p] = NoPair

\* C30: a GET, POST or PUT on any url starting with /mcp that arrives while the
\* registry holds a session is handed to that session's transport in the step
\* that accepts it and constructs no pair; the registry holds at most one entry.
C30_ExistingSessionReused ==
  [][/\ \A r \in ReqIds :
          (/\ reqs[r].kind = "none" /\ reqs'[r].kind = "mcp"
           /\ reqs'[r].method # "OPTIONS" /\ activeSessions # {})
            => /\ reqs'[r].pc = "forward"
               /\ <<sharedSessionId, reqs'[r].sess>> \in activeSessions
               /\ pairs' = pairs /\ activeSessions' = activeSessions
     /\ Cardinality(activeSessions') <= 1]_vars
\* a PUT on /mcpx was handed to the session a request on /mcp had created
C30_Witness ==
  \E r \in ReqIds :
    /\ reqs[r].method = "PUT" /\ reqs[r].url = McpUrl \o <<"x">>
    /\ reqs[r].pc = "forward" /\ reqs[r].sess \notin {0, r}
    /\ reqs[reqs[r].sess].url = McpUrl /\ pairs[r] = NoPair

\* C25: the step in which the peer of a POST/PUT exchange goes away leaves the
\* call forwarded for it, the registry, the pairs, the child connection and the
\* timers as they were, and the handler where it was; cleanup timers exist only
\* for GET exchanges.
C25_PostDisconnectHasNoEffect ==
  [][/\ \A r \in ReqIds :
          (~reqs[r].gone /\ reqs'[r].gone /\ reqs[r].method # "GET")
            => /\ calls' = calls /\ reqs'[r].pc = reqs[r].pc
               /\ activeSessions' = activeSessions /\ pairs' = pairs
               /\ chromeClient' = chromeClient /\ clients' = clients
               /\ timers' = timers /\ timerQueue' = timerQueue
     /\ \A r \in ReqIds, ev \in Events :
          timers'[<<r, ev>>].pc # "none" => reqs'[r].method = "GET"]_vars
\* the peer of a POST went away while its call was pending; the child then
\* served the call, and the session is still registered and open
C25_Witness ==
  \E r \in ReqIds :
    /\ reqs[r].method = "POST" /\ reqs[r].gone /\ reqs[r].msgs = {}
    /\ calls[r].state = "ok" /\ reqs[r].ret = calls[r].result
    /\ Key(reqs[r].sess) \in activeSessions /\ LiveSession(reqs[r].sess)

\* C26: when a request is handed to a transport, every /mcp request that arrived
\* before it has been handed to one already (or answered): no earlier request is
\* still waiting for its session.
C26_ForwardedInArrivalOrder ==
  [][\A a, b \in ReqIds :
       (a < b /\ reqs[b].pc # "forward" /\ reqs'[b].pc = "forward")
         => reqs[a].pc # "connect"]_vars

C28_ExitStatus ==
  /\ exited \in {-1, 0, 1}
  /\ exited = 0 <=> \E k \in DOMAIN cleanups : cleanups[k].pc = "done"
  /\ exited = 1 => (mainPc = "failed" \/ (mode = "http" /\ mainPc = "listening"))
  /\ mainPc = "failed" => exited = 1
\* the listener reported an error and the process exited with status 1
C28_Witness == exited = 1 /\ mode = "http" /\ mainPc = "listening" /\ cleanups = <<>>

\* C29: the step in which the startup connect or the startup listTools fails
\* takes startHTTP on to the listener: the process does not exit and listens.
C29_PreInitFailureNotFatal ==
  [][(\/ /\ mainPc = "preinit" /\ clients # <<>> /\ clients[1] = "connecting"
         /\ clients'[1] = "failed"
      \/ /\ mainPc = "smoke" /\ calls[0].state = "pending" /\ calls'[0].state = "err")
       => (mainPc' = "listening" /\ exited' = -1)]_vars
\* the startup listTools failed, and afterwards /health was answered and a
\* tools/call on /mcp got its result
C29_Witness ==
  /\ calls[0].state = "err"
  /\ \E r1, r2 \in ReqIds :
       /\ reqs[r1].kind = "health" /\ reqs[r1].status = 200
       /\ reqs[r2].kind = "mcp" /\ \E m \in reqs[r2].msgs : m.ok /\ m.call = r2

\* C31: in HTTP mode the listener exists, and a request has been handled, only
\* after the startup pre-initialization has concluded: the startup connect is no
\* longer awaited, and if it succeeded the startup listTools has been answered
\* with a result or an error.
C31_ListenAfterPreInit ==
  (mode = "http" /\ (mainPc = "listening" \/ nextReq > 0))
    => /\ clients # <<>> /\ clients[1] # "connecting"
       /\ calls[0].state # "pending"
       /\ clients[1] = "ready" => calls[0].state \in {"ok", "err"}
\* the pre-initialization succeeded and a tools/call on /mcp was answered afterwards
C31_Witness ==
  /\ mode = "http" /\ calls[0].state = "ok"
  /\ \E r \in ReqIds : reqs[r].kind = "mcp" /\ \E m \in reqs[r].msgs : m.ok /\ m.call = r

\* C32: a listTools/callTool is sent to the child only on a client whose
\* handshake has completed, by the startup and by every handler, also by a
\* handler that enters while another caller's connect is still awaited.
C32_CallsOnlyOnEstablished ==
  [][\A r \in 0..MaxReq :
       calls'[r].sent > calls[r].sent => clients'[calls'[r].client] = "ready"]_vars

\* C33: a cleanup timer removes only the session that was in the registry when
\* the close/finish that scheduled it was emitted, also when that session has
\* been closed in the meantime and another one has been created since.
C33_TimerRemovesOwnSession ==
  [][\A t \in ReqIds \X Events :
       (/\ timers[t].pc = "armed" /\ timers'[t].pc = "tclose"
        /\ timers[t].atEvent # 0 /\ pairs[timers[t].atEvent].transport = "closed")
         => timers'[t].sess = timers[t].atEvent]_vars

\* C34: once the process has exited with status 0, the registry is empty, every
\* server/transport pair that was constructed has both objects closed, and the
\* server of stdio mode is closed.
C34_ExitLeavesNothingOpen ==
  exited = 0
    => /\ activeSessions = {}
       /\ \A p \in ReqIds : pairs[p].transport # "none"
            => (pairs[p].transport = "closed" /\ pairs[p].server = "closed")
       /\ stdioServer \in {"none", "closed"}

\* C35: once the process has exited, with whatever status, no client that was
\* constructed is left connecting or connected without cleanup() having called
\* close() on it.
C35_ExitClosesChild ==
  exited # -1
    => \A c \in 1..Len(clients) :
         clients[c] \in {"connecting", "ready"}
           => \E k \in DOMAIN cleanups : cleanups[k].child = "called"

\* C36: the session a request is handed to (line 295) has a connected server and
\* an open transport at that moment, also while cleanup() is running.
C36_ForwardedToOpenSession ==
  [][\A r \in ReqIds :
       (reqs[r].pc # "forward" /\ reqs'[r].pc = "forward")
         => /\ pairs'[reqs'[r].sess].server = "connected"
            /\ pairs'[reqs'[r].sess].transport = "open"]_vars

\* C37: a pair enters the registry only in the step in which its
\* server.connect(transport) resolves, so no registry entry holds a server that
\* was never connected; when the connect rejects, the registry is unchanged and
\* the request is answered 500.
C37_StoredOnlyWhenConnected ==
  [][/\ \A e \in activeSessions' : pairs'[e[2]].server \in {"connected", "closed"}
     /\ \A e \in activeSessions' \ activeSessions :
          /\ reqs[e[2]].pc = "connect" /\ pairs'[e[2]].server = "connected"
          /\ pairs'[e[2]].transport = "open"
     /\ \A r \in ReqIds :
          (reqs[r].pc = "connect" /\ reqs'[r].pc = "done")
            => (activeSessions' = activeSessions /\ reqs'[r].status = 500
                /\ pairs'[r].server = "created")]_vars
\* one request's connect was rejected and answered 500 with the registry left
\* empty; a later request's connect resolved and its pair is the registry entry
C37_Witness ==
  \E r1, r2 \in ReqIds :
    /\ r1 < r2 /\ reqs[r1].status = 500 /\ reqs[r1].thrown = ConnectError
    /\ pairs[r1].server = "created"
    /\ activeSessions = {Key(r2)} /\ pairs[r2].server = "connected"

\* C38: over all the cleanup() runs of a shutdown, transport.close() and
\* server.close() are called on a session at most once, and
\* chromeClient.close() is called at most once.
C38_ClosedAtMostOnce ==
  \A k1, k2 \in DOMAIN cleanups :
    k1 # k2 => /\ cleanups[k1].tried \cap cleanups[k2].tried = {}
               /\ cleanups[k1].stried \cap cleanups[k2].stried = {}
               /\ ~(cleanups[k1].child = "called" /\ cleanups[k2].child = "called")

\* C39: the mode is stdio exactly when argv holds --stdio or MCP_TRANSPORT is
\* stdio, and only that mode is started: in stdio mode there is no listener, no
\* HTTP exchange and no startup call, and a client exists only once a request
\* has arrived; in HTTP mode there is no stdio server and no stdio request.
C39_OneTransportMode ==
  /\ mode = "stdio" <=> (Includes(launch.argv, "--stdio") \/ launch.env = "stdio")
  /\ mode = "http" <=> ~(Includes(launch.argv, "--stdio") \/ launch.env = "stdio")
  /\ mode = "stdio"
       => /\ mainPc \in {"start", "stdio_connect", "serving", "failed"}
          /\ \A r \in ReqIds : reqs[r].kind \in {"none", "stdio"}
          /\ calls[0] = NoCall
          /\ clients # <<>> => nextReq > 0
  /\ mode = "http"
       => /\ mainPc \in {"start", "preinit", "smoke", "listening"}
          /\ stdioServer = "none"
          /\ \A r \in ReqIds : reqs[r].kind # "stdio"
\* started without --stdio but with MCP_TRANSPORT=stdio: the stdio server is
\* connected and the first request has spawned the child
C39_Witness ==
  /\ ~Includes(launch.argv, "--stdio") /\ launch.env = "stdio"
  /\ stdioServer = "connected" /\ nextReq = 1 /\ Len(clients) = 1 /\ reqs[1].pc = "init"
====
